---- MODULE Spec2Model ----
(***************************************************************************)
(* The launch orchestration of the Why Java launcher:                      *)
(*   main.rs           main(), launch() and its threads                    *)
(*   launch_config.rs  process_config()                                    *)
(*   java_launcher.rs  create_and_run_jvm(), get_jvm_paths(),              *)
(*                     try_launch_jvm(), close_jvm(),                      *)
(*                     compatible_java_version()                           *)
(*   file_handler.rs   get_jvm_paths(), compatible_java_version(),         *)
(*                     get_java_version_of_main(),                         *)
(*                     read_class_version_to_java()                        *)
(* The file system, the environment and the JNI invocation interface are   *)
(* external: every call into them is a nondeterministic choice over the    *)
(* results the call can return.                                            *)
(***************************************************************************)
EXTENDS Integers, Sequences, FiniteSets, TLC

\* Java major versions range over 1..MaxJava; a requirement of 0 is "none".
MaxJava == 2

\* Longest classpath handed to get_java_version_of_main.
MaxClasspath == 2

\* How often get_java_version_of_main is called, and config.min_java read.
MaxCalls == 2

\* Most lines with the key java-options in one configuration file.
MaxOptions == 2

\* Most lines with one of the other keys in one configuration file.
MaxValues == 2

MaxLeaves == 3

MaxAncestors == 6

\* Most lines of a manifest.
MaxLines == 4

\* Number of entries of JVM_LOC_QUERIES in java_launcher.rs.
JVM_LOC_QUERIES_LEN == 1

VARIABLES
    config,        \* LaunchOpts.config, as read by launch()
    pc,            \* position of the control thread
    done,          \* get_jvm_paths: `done`
    loc,           \* get_jvm_paths: index of the next JVM_LOC_QUERIES entry
    jvm_paths,     \* get_jvm_paths: `jvm_paths`
    jvm_path,      \* create_and_run_jvm: `jvm_path`
    had_jvm_path,  \* create_and_run_jvm: `had_jvm_path`
    jvm,           \* the runtime handle: "none", "live" or "destroyed"
    messages,      \* what was sent to the display channel, in order
    events,        \* strategies invoked and native operations made, in order
    outcome,       \* the branch on which the run ended
    prevDiag,      \* the no-candidate diagnostic of an earlier run of the launcher
    proc,          \* the build's target_os and the main thread's run-loop rounds
    fh,            \* file_handler.rs get_jvm_paths: the closures and their calls
    cls,           \* file_handler.rs get_java_version_of_main: inputs and calls
    lc,            \* launch_config.rs read_config: the files and what is made of them
    fs,            \* find_file and compatible_java_version: a tree and the walks
    mp             \* manifest_handler.rs parse_manifest: the lines and the parser

vars == <<config, pc, done, loc, jvm_paths, jvm_path, had_jvm_path, jvm,
          messages, events, outcome, prevDiag, proc, fh, cls, lc, fs, mp>>

----------------------------------------------------------------------------
\* Release metadata of an installation, as compatible_java_version sees it:
\* no release file, no JAVA_VERSION key, a value whose first part is not an
\* integer, or a major version.
Metas ==
    {[k |-> "NoFile", v |-> 0], [k |-> "NoKey", v |-> 0], [k |-> "NotInt", v |-> 0]}
        \cup {[k |-> "Ver", v |-> w] : w \in 1..MaxJava}

NoMeta == [k |-> "NoFile", v |-> 0]

\* valid_path(find_file(root, DYN_JAVA_LIB)): nothing, or a library path
\* inside an installation with some release metadata.
FindResults ==
    {[found |-> FALSE, meta |-> NoMeta]} \cup {[found |-> TRUE, meta |-> m] : m \in Metas}

\* Option<PathBuf>
NoPath == [some |-> FALSE, tag |-> "-", meta |-> NoMeta]

SomePath(tag, meta) == [some |-> TRUE, tag |-> tag, meta |-> meta]

\* The configuration file is missing, or holds these settings.
NoConfigFile ==
    [file_exists |-> FALSE, main_class |-> FALSE, classpath |-> FALSE,
     jvm_path |-> FALSE, min_java |-> 0, allows_system_java |-> FALSE,
     allows_java_location_lookup |-> FALSE]

Configs ==
    [file_exists : {TRUE}, main_class : BOOLEAN, classpath : BOOLEAN,
     jvm_path : BOOLEAN, min_java : 0..MaxJava, allows_system_java : BOOLEAN,
     allows_java_location_lookup : BOOLEAN] \cup {NoConfigFile}

NoDiag == [some |-> FALSE, required |-> 0, found |-> FALSE, msg |-> <<>>]

\* get_jvm_paths of file_handler.rs has not been called.
NoResolver ==
    [os |-> "linux", runtime |-> FALSE, min_java |-> 0, built |-> FALSE,
     jvm_paths |-> <<>>, next |-> 1, calls |-> <<>>]

\* Option<u16>: the Java version a class file needs.
NoVersion == [some |-> FALSE, v |-> 0]

SomeVersion(v) == [some |-> TRUE, v |-> v]

\* get_java_version_of_main has not been called.
NoIntrospection ==
    [main_class |-> FALSE, classpath |-> <<>>, declared_min |-> 0,
     calls |-> <<>>, phase |-> "config", min_java |-> NoVersion,
     reads |-> <<>>]

\* A configuration file as parse_config reads it: whether a line starts a
\* section without closing it, and the values of each key in file order.
ConfigFile(bad_header, java_options, classpath, mainjar, mainclass, runtime, memory) ==
    [bad_header |-> bad_header,
     keys |-> [java_options |-> java_options, classpath |-> classpath,
               mainjar |-> mainjar, mainclass |-> mainclass,
               runtime |-> runtime, memory |-> memory,
               arguments |-> <<>>]]

EmptyFile == ConfigFile(FALSE, <<>>, <<>>, <<>>, <<>>, <<>>, <<>>)

\* The file with values of `arguments` in its section ArgOptions.
WithArguments(file, arguments) == [file EXCEPT !.keys.arguments = arguments]

\* What read_manifest gives for a jar: Err, or a manifest that may lack its
\* main section and whose main section may set Main-Class, Class-Path and
\* Add-Opens.
Manifest(ok, main_section, main_class, class_path, add_opens) ==
    [ok |-> ok, main_section |-> main_section, main_class |-> main_class,
     class_path |-> class_path, add_opens |-> add_opens]

NoManifest == Manifest(FALSE, FALSE, <<>>, <<>>, <<>>)

\* The LaunchConfig before process_config has built it.
NoLaunchConfigValue ==
    [main_class |-> "", runtime |-> "", java_opts |-> <<>>,
     classpath |-> <<>>, lookup_path |-> <<>>, program_opts |-> <<>>]

\* call_static_method has not been reached.
NoCall ==
    [made |-> FALSE, nargs |-> 0, strings |-> <<>>, array |-> FALSE,
     result |-> "none"]

\* read_config has not been called.
NoLaunchConfig ==
    [primary |-> EmptyFile, overlay |-> "NoPath", secondary |-> EmptyFile,
     manifests |-> [jar \in {"a", "b"} |-> NoManifest], phase |-> "files",
     config |-> NoLaunchConfigValue, jvm_opts |-> <<>>,
     args |-> [ok |-> FALSE, options |-> <<>>], notices |-> <<>>,
     created |-> FALSE, cfg |-> EmptyFile.keys, cli |-> <<>>,
     program_opts |-> <<>>, call |-> NoCall]

\* Option<String>: the name of a section of a manifest, the header being read.
NoName == [some |-> FALSE, name |-> ""]

SomeName(name) == [some |-> TRUE, name |-> name]

\* parse_manifest before its first line: `manifest`, `current_section_key`,
\* `current_section`, `current_key`, `current_value` as they are created.
NoParse ==
    [lines |-> <<>>, pos |-> 1, phase |-> "lines", manifest |-> {},
     current_section_key |-> NoName, current_section |-> {},
     current_key |-> NoName, current_value |-> ""]

\* find_file has returned nothing.
NoPathFound == [some |-> FALSE, path |-> <<>>]

\* compatible_java_version has not been called.
NoOracle ==
    [impl |-> "none", phase |-> "idle", i |-> 0, c |-> 0, used |-> 0,
     lines |-> 0, result |-> "none"]

\* find_file has not been called: no root, no tree below it.
NoFileSystem ==
    [root |-> [name |-> "jdk", exists |-> FALSE], tree |-> {},
     phase |-> "idle", started |-> FALSE, yielded |-> <<>>, cur |-> <<>>,
     path |-> <<>>, has_path |-> FALSE, result |-> NoPathFound,
     anc |-> <<>>, os |-> "unix", oracle |-> NoOracle]

----------------------------------------------------------------------------
\* message(msg): one diagnostic on the display channel.
message(msgs, id, ver) == Append(msgs, [id |-> id, ver |-> ver])

Event(kind, tag, ok, found, meta) ==
    [kind |-> kind, tag |-> tag, ok |-> ok, found |-> found, meta |-> meta]

NativeEvent(kind, ok) == Event(kind, "-", ok, FALSE, NoMeta)

\* LauncherConfig::validate: both the main class and the classpath are there.
validate(cfg) == cfg.main_class /\ cfg.classpath

\* java_launcher.rs compatible_java_version: Some(found_ver >= req_ver), None
\* when the release file or the key is missing, and a panic (parse().unwrap())
\* when the first part of the value is not an integer.
compatible_java_version(meta, req_ver) ==
    CASE meta.k = "NoFile" -> "None"
      [] meta.k = "NoKey"  -> "None"
      [] meta.k = "NotInt" -> "panic"
      [] meta.k = "Ver"    -> IF meta.v >= req_ver THEN "Some_true" ELSE "Some_false"

\* A mutant of the version gate: the `if compatible` test is forgotten.
gate_without_compatible_test(verdict) == verdict \in {"Some_true", "Some_false"}

\* The version gate of every strategy of get_jvm_paths:
\* `if let Some(compatible) = ... { if compatible { push } }`.
gate(verdict) == verdict = "Some_true"

\* The state before launch() reads the configuration.
NotLaunched ==
    /\ pc = "launch"
    /\ done = FALSE
    /\ loc = 1
    /\ jvm_paths = <<>>
    /\ jvm_path = NoPath
    /\ had_jvm_path = FALSE
    /\ jvm = "none"
    /\ messages = <<>>
    /\ events = <<>>
    /\ outcome = "None"
    /\ prevDiag = NoDiag

Init ==
    /\ config \in Configs
    /\ NotLaunched
    /\ proc = [os |-> "not_macos", rounds |-> 0]
    /\ fh = NoResolver
    /\ cls = NoIntrospection
    /\ lc = NoLaunchConfig
    /\ fs = NoFileSystem
    /\ mp = NoParse

----------------------------------------------------------------------------
\* main.rs launch(): report a missing configuration file, read the
\* configuration (read_config(..).unwrap(), and process_config's
\* main_class.clone().unwrap()), then run create_and_run_jvm.
launch ==
    /\ pc = "launch"
    /\ IF ~config.file_exists
       THEN /\ messages' = message(messages, "ConfigFileNotFound", 0)
            /\ pc' = "panicked"
            /\ outcome' = "Panicked"
       ELSE IF ~config.main_class
       THEN /\ pc' = "panicked"
            /\ outcome' = "Panicked"
            /\ UNCHANGED messages
       ELSE /\ pc' = "validate"
            /\ UNCHANGED <<messages, outcome>>
    /\ UNCHANGED <<config, done, loc, jvm_paths, jvm_path, had_jvm_path, jvm,
                   events, prevDiag, lc, fs, proc, fh, cls, mp>>

\* create_and_run_jvm: `if !launch_opts.config.validate() { message; return }`.
validate_config ==
    /\ pc = "validate"
    /\ IF ~validate(config)
       THEN /\ messages' = message(messages, "InvalidConfig", 0)
            /\ outcome' = "ConfigurationInvalid"
            /\ pc' = "done"
       ELSE /\ pc' = "configured"
            /\ UNCHANGED <<messages, outcome>>
    /\ UNCHANGED <<config, done, loc, jvm_paths, jvm_path, had_jvm_path, jvm,
                   events, prevDiag, lc, fs, proc, fh, cls, mp>>

----------------------------------------------------------------------------
Probe_without_done(tag, r, next) ==
    LET verdict == IF r.found
                   THEN compatible_java_version(r.meta, config.min_java)
                   ELSE "None"
        accept  == r.found /\ verdict # "panic" /\ gate(verdict)
    IN  /\ events' = Append(events, Event("probe", tag, accept, r.found, r.meta))
        /\ IF verdict = "panic"
           THEN /\ pc' = "panicked"
                /\ outcome' = "Panicked"
                /\ UNCHANGED <<done, jvm_paths>>
           ELSE /\ done' = done
                /\ jvm_paths' = IF accept
                                THEN Append(jvm_paths, SomePath(tag, r.meta))
                                ELSE jvm_paths
                /\ pc' = next
                /\ UNCHANGED outcome

\* One strategy of get_jvm_paths: the result r of the search, the version
\* gate, and `done = true; jvm_paths.push(..)` when the gate accepts.
Probe(tag, r, next) ==
    LET verdict == IF r.found
                   THEN compatible_java_version(r.meta, config.min_java)
                   ELSE "None"
        accept  == r.found /\ verdict # "panic" /\ gate(verdict)
    IN  /\ events' = Append(events, Event("probe", tag, accept, r.found, r.meta))
        /\ IF verdict = "panic"
           THEN /\ pc' = "panicked"
                /\ outcome' = "Panicked"
                /\ UNCHANGED <<done, jvm_paths>>
           ELSE /\ done' = (done \/ accept)
                /\ jvm_paths' = IF accept
                                THEN Append(jvm_paths, SomePath(tag, r.meta))
                                ELSE jvm_paths
                /\ pc' = next
                /\ UNCHANGED outcome

\* get_jvm_paths, `match &launch_opts.config.jvm_path`: search the current
\* working directory (None) or the configured path (Some).
search_configured ==
    /\ pc = "configured"
    /\ \E r \in FindResults :
         \/ /\ ~config.jvm_path
            /\ Probe("cwd", r, "system")
         \/ /\ config.jvm_path
            /\ Probe("explicit", r, "system")
    /\ UNCHANGED <<config, loc, jvm_path, had_jvm_path, jvm, messages, prevDiag, lc, fs, proc, fh, cls, mp>>

\* A mutant of the guard of the system-Java strategy: `&& !done` is dropped.
system_java_enabled_ignoring_done == config.allows_system_java

\* get_jvm_paths: `if launch_opts.config.allows_system_java && !done`.
system_java_enabled == config.allows_system_java /\ ~done

\* get_jvm_paths, "Check system Java install": java_locator's lookup of the
\* runtime-home environment variable, then the version gate.
search_system ==
    /\ pc = "system"
    /\ IF system_java_enabled
       THEN \E r \in FindResults : Probe("system", r, "lookup")
       ELSE /\ pc' = "lookup"
            /\ UNCHANGED <<done, jvm_paths, events, outcome>>
    /\ UNCHANGED <<config, loc, jvm_path, had_jvm_path, jvm, messages, prevDiag, lc, fs, proc, fh, cls, mp>>

\* A mutant of the guard of the fallback locations: `&& !done` is dropped.
fallback_enabled_ignoring_done == config.allows_java_location_lookup

\* get_jvm_paths: `if launch_opts.config.allows_java_location_lookup && !done`,
\* and `if done { break }` after each entry.
fallback_enabled == config.allows_java_location_lookup /\ ~done

\* get_jvm_paths, "Search fallback locations": one entry of JVM_LOC_QUERIES
\* per step, until one is accepted or the list ends; then `Some(jvm_paths)`.
search_fallback ==
    /\ pc = "lookup"
    /\ IF fallback_enabled /\ loc <= JVM_LOC_QUERIES_LEN
       THEN /\ \E r \in FindResults : Probe("location", r, "lookup")
            /\ loc' = loc + 1
       ELSE /\ pc' = "pick"
            /\ UNCHANGED <<done, loc, jvm_paths, events, outcome>>
    /\ UNCHANGED <<config, jvm_path, had_jvm_path, jvm, messages, prevDiag, lc, fs, proc, fh, cls, mp>>

\* What get_jvm_paths returns: always `Some(jvm_paths)`.
get_jvm_paths == [some |-> TRUE, paths |-> jvm_paths]

\* create_and_run_jvm: take the first path of the list (`for p in paths
\* { jvm_path = Some(p); had_jvm_path = true; break; }`), or report that no
\* list came back.
pick_path ==
    /\ pc = "pick"
    /\ IF get_jvm_paths.some
       THEN /\ IF Len(get_jvm_paths.paths) > 0
               THEN /\ jvm_path' = Head(get_jvm_paths.paths)
                    /\ had_jvm_path' = TRUE
               ELSE UNCHANGED <<jvm_path, had_jvm_path>>
            /\ pc' = "create"
            /\ UNCHANGED <<messages, outcome>>
       ELSE /\ messages' = message(messages, "FailedToFind", 0)
            /\ outcome' = "NoCandidateFound"
            /\ pc' = "done"
            /\ UNCHANGED <<jvm_path, had_jvm_path>>
    /\ UNCHANGED <<config, done, loc, jvm_paths, jvm, events, prevDiag, lc, fs, proc, fh, cls, mp>>

----------------------------------------------------------------------------
\* close_jvm: call DestroyJavaVM through the handle's pointer (the function
\* pointer of a runtime's invoke interface is always set). The event records
\* whether the runtime was still live when the call was made.
close_jvm(ev) == Append(ev, NativeEvent("destroy", jvm = "live"))

\* A mutant of the diagnostic of a failed launch: the two branches are swapped.
launch_failed_message_swapped(had) ==
    IF had
    THEN [id |-> "MissingOrOlder", ver |-> config.min_java]
    ELSE [id |-> "FailedToStart", ver |-> 0]

\* create_and_run_jvm, the `else` of `if let Some(jvm) = try_launch_jvm(..)`:
\* "A missing or older Java installation was found. Please install <Java N or
\* newer | any Java.>" when no path was picked, "Java failed to start" otherwise.
launch_failed_message(had) ==
    IF ~had
    THEN [id |-> "MissingOrOlder", ver |-> config.min_java]
    ELSE [id |-> "FailedToStart", ver |-> 0]

\* try_launch_jvm returned None: show the diagnostic and return.
launch_failed(msgs) ==
    /\ messages' = Append(msgs, launch_failed_message(had_jvm_path))
    /\ outcome' = IF had_jvm_path THEN "InitializationFailed" ELSE "NoCandidateFound"
    /\ pc' = "done"

\* A mutant of try_launch_jvm: a failed create is taken for a runtime.
try_launch_jvm_attaching_after_failed_create ==
    /\ pc = "create"
    /\ \/ /\ ~jvm_path.some
          /\ launch_failed(messages)
          /\ UNCHANGED <<jvm, events>>
       \/ /\ jvm_path.some
          /\ launch_failed(message(messages, "FailedJvmArgs", 0))
          /\ UNCHANGED <<jvm, events>>
       \/ /\ jvm_path.some
          /\ events' = Append(events, Event("create", jvm_path.tag, FALSE, TRUE, jvm_path.meta))
          /\ pc' = "attach"
          /\ UNCHANGED <<jvm, messages, outcome>>
       \/ /\ jvm_path.some
          /\ events' = Append(events, Event("create", jvm_path.tag, TRUE, TRUE, jvm_path.meta))
          /\ jvm' = "live"
          /\ outcome' = "Started"
          /\ pc' = "attach"
          /\ UNCHANGED messages
    /\ UNCHANGED <<config, done, loc, jvm_paths, jvm_path, had_jvm_path, prevDiag, lc, fs, proc, fh, cls, mp>>

\* try_launch_jvm: nothing to launch without a path; make_jvm_args may fail
\* (its diagnostic is shown here); JavaVM::with_libjvm creates the runtime or
\* fails.
try_launch_jvm ==
    /\ pc = "create"
    /\ \/ /\ ~jvm_path.some
          /\ launch_failed(messages)
          /\ UNCHANGED <<jvm, events>>
       \/ /\ jvm_path.some
          /\ launch_failed(message(messages, "FailedJvmArgs", 0))
          /\ UNCHANGED <<jvm, events>>
       \/ /\ jvm_path.some
          /\ events' = Append(events, Event("create", jvm_path.tag, FALSE, TRUE, jvm_path.meta))
          /\ launch_failed(messages)
          /\ UNCHANGED jvm
       \/ /\ jvm_path.some
          /\ events' = Append(events, Event("create", jvm_path.tag, TRUE, TRUE, jvm_path.meta))
          /\ jvm' = "live"
          /\ outcome' = "Started"
          /\ pc' = "attach"
          /\ UNCHANGED messages
    /\ UNCHANGED <<config, done, loc, jvm_paths, jvm_path, had_jvm_path, prevDiag, lc, fs, proc, fh, cls, mp>>

\* A mutant of attach_current_thread: a failed attach goes back to creating a
\* runtime, without closing the one it has.
attach_current_thread_recreating ==
    /\ pc = "attach"
    /\ \/ /\ events' = Append(events, NativeEvent("attach", TRUE))
          /\ pc' = "invoke"
          /\ UNCHANGED <<messages, outcome>>
       \/ /\ events' = Append(events, NativeEvent("attach", FALSE))
          /\ messages' = message(messages, "AttachFailed", 0)
          /\ outcome' = "AttachFailed"
          /\ pc' = "create"
    /\ UNCHANGED <<config, done, loc, jvm_paths, jvm_path, had_jvm_path, jvm, prevDiag, lc, fs, proc, fh, cls, mp>>

\* create_and_run_jvm: jvm.attach_current_thread_as_daemon(); on Err the
\* diagnostic is shown and control falls through to the final close_jvm.
attach_current_thread ==
    /\ pc = "attach"
    /\ \/ /\ events' = Append(events, NativeEvent("attach", TRUE))
          /\ pc' = "invoke"
          /\ UNCHANGED <<messages, outcome>>
       \/ /\ events' = Append(events, NativeEvent("attach", FALSE))
          /\ messages' = message(messages, "AttachFailed", 0)
          /\ outcome' = "AttachFailed"
          /\ pc' = "close"
    /\ UNCHANGED <<config, done, loc, jvm_paths, jvm_path, had_jvm_path, jvm, prevDiag, lc, fs, proc, fh, cls, mp>>

\* A mutant of call_main: a failed call goes back to creating a runtime.
call_main_retrying ==
    /\ pc = "invoke"
    /\ \/ /\ events' = Append(events, NativeEvent("invoke", TRUE))
          /\ pc' = "wait"
          /\ UNCHANGED <<messages, outcome>>
       \/ /\ events' = Append(events, NativeEvent("invoke", FALSE))
          /\ messages' = message(messages, "StartAppFailed", 0)
          /\ outcome' = "InvocationFailed"
          /\ pc' = "create"
    /\ UNCHANGED <<config, done, loc, jvm_paths, jvm_path, had_jvm_path, jvm, prevDiag, lc, fs, proc, fh, cls, mp>>

\* create_and_run_jvm: env.call_static_method(main_class, "main", ..); on Err
\* the diagnostic is shown and the function returns at once.
call_main ==
    /\ pc = "invoke"
    /\ \/ /\ events' = Append(events, NativeEvent("invoke", TRUE))
          /\ pc' = "wait"
          /\ UNCHANGED <<messages, outcome>>
       \/ /\ events' = Append(events, NativeEvent("invoke", FALSE))
          /\ messages' = message(messages, "StartAppFailed", 0)
          /\ outcome' = "InvocationFailed"
          /\ pc' = "done"
    /\ UNCHANGED <<config, done, loc, jvm_paths, jvm_path, had_jvm_path, jvm, prevDiag, lc, fs, proc, fh, cls, mp>>

\* create_and_run_jvm: `if let Ok(j) = env.get_java_vm() { close_jvm(j); }`,
\* which waits for the Java threads and destroys the runtime.
wait_and_close ==
    /\ pc = "wait"
    /\ \/ /\ events' = close_jvm(Append(events, NativeEvent("get_java_vm", TRUE)))
          /\ jvm' = "destroyed"
       \/ /\ events' = Append(events, NativeEvent("get_java_vm", FALSE))
          /\ UNCHANGED jvm
    /\ pc' = "close"
    /\ UNCHANGED <<config, done, loc, jvm_paths, jvm_path, had_jvm_path, messages,
                   outcome, prevDiag, lc, fs, proc, fh, cls, mp>>

\* create_and_run_jvm, "Ensure the JVM is closed": close_jvm(jvm).
close_final ==
    /\ pc = "close"
    /\ events' = close_jvm(events)
    /\ jvm' = "destroyed"
    /\ pc' = "done"
    /\ UNCHANGED <<config, done, loc, jvm_paths, jvm_path, had_jvm_path, messages,
                   outcome, prevDiag, lc, fs, proc, fh, cls, mp>>

----------------------------------------------------------------------------
Next ==
    \/ launch
    \/ validate_config
    \/ search_configured
    \/ search_system
    \/ search_fallback
    \/ pick_path
    \/ try_launch_jvm
    \/ attach_current_thread
    \/ call_main
    \/ wait_and_close
    \/ close_final

Spec == Init /\ [][Next]_vars

----------------------------------------------------------------------------
\* History of one run.
Terminated == pc \in {"done", "panicked"}

EventsOf(kind) == {i \in 1..Len(events) : events[i].kind = kind}

Probes == EventsOf("probe")

Creates == EventsOf("create")

Destroys == EventsOf("destroy")

NativeKinds == {"create", "attach", "invoke", "get_java_vm", "destroy"}

CreateSucceeded == \E i \in Creates : events[i].ok

CreateFailed == \E i \in Creates : ~events[i].ok

\* Some strategy found an installation whose release metadata declares a
\* version below the requirement.
RejectedAsTooOld ==
    \E i \in Probes : /\ events[i].found
                      /\ events[i].meta.k = "Ver"
                      /\ events[i].meta.v < config.min_java

\* The launcher is started again, on a host and a configuration that may have
\* changed; the no-candidate diagnostic of the run that ended is remembered.
Relaunch ==
    /\ Terminated
    /\ prevDiag' = IF pc = "done" /\ outcome = "NoCandidateFound"
                   THEN [some |-> TRUE, required |-> config.min_java,
                         found |-> RejectedAsTooOld, msg |-> messages]
                   ELSE prevDiag
    /\ config' \in Configs
    /\ pc' = "launch"
    /\ done' = FALSE
    /\ loc' = 1
    /\ jvm_paths' = <<>>
    /\ jvm_path' = NoPath
    /\ had_jvm_path' = FALSE
    /\ jvm' = "none"
    /\ messages' = <<>>
    /\ events' = <<>>
    /\ outcome' = "None"
    /\ UNCHANGED <<proc, fh, cls, lc, fs, mp>>

NextRuns == Next \/ Relaunch

SpecRuns == Init /\ [][NextRuns]_vars

----------------------------------------------------------------------------
\* The threads of the process (main.rs).  Off macOS launch() calls
\* create_and_run_jvm on the main thread and returns.  On macOS launch()
\* spawns a worker for create_and_run_jvm and parks the main thread in
\* CFRunLoop::run_in_mode, which it leaves only on CFRunLoopRunResult::Finished;
\* what the run loop returns is decided by the platform.
Platforms == {"not_macos", "macos"}

InitThreads ==
    /\ config \in Configs
    /\ NotLaunched
    /\ proc \in [os : Platforms, rounds : {0}]
    /\ fh = NoResolver
    /\ cls = NoIntrospection
    /\ lc = NoLaunchConfig
    /\ fs = NoFileSystem
    /\ mp = NoParse

\* The panic was raised by launch() itself, before any strategy ran: on the
\* main thread on every platform.
PanickedInLaunch == pc = "panicked" /\ Probes = {}

\* The main thread is inside the `loop { run_in_mode(..) }` of launch().
Parked ==
    /\ proc.os = "macos"
    /\ pc \notin {"launch", "exited"}
    /\ ~PanickedInLaunch

\* cfg(not(target_os = "macos")): create_and_run_jvm returned, launch() and
\* main() return, the process exits.
main_returns ==
    /\ proc.os = "not_macos"
    /\ pc = "done"
    /\ pc' = "exited"
    /\ UNCHANGED <<config, done, loc, jvm_paths, jvm_path, had_jvm_path, jvm,
                   messages, events, outcome, prevDiag, proc, fh, cls, lc, fs, mp>>

\* A panic on the main thread ends the process; a panic on the macOS worker
\* ends the worker only.
main_panics ==
    /\ pc = "panicked"
    /\ proc.os = "not_macos" \/ PanickedInLaunch
    /\ pc' = "exited"
    /\ UNCHANGED <<config, done, loc, jvm_paths, jvm_path, had_jvm_path, jvm,
                   messages, events, outcome, prevDiag, proc, fh, cls, lc, fs, mp>>

\* run_in_mode returned something other than Finished: the loop goes round.
park_continue ==
    /\ Parked
    /\ proc' = [proc EXCEPT !.rounds = 1 - @]
    /\ UNCHANGED <<config, pc, done, loc, jvm_paths, jvm_path, had_jvm_path,
                   jvm, messages, events, outcome, prevDiag, lc, fs, fh, cls, mp>>

\* run_in_mode returned Finished: `break`, launch() and main() return, and the
\* process exits with whatever the worker was doing.
park_finish ==
    /\ Parked
    /\ pc' = "exited"
    /\ UNCHANGED <<config, done, loc, jvm_paths, jvm_path, had_jvm_path, jvm,
                   messages, events, outcome, prevDiag, proc, fh, cls, lc, fs, mp>>

MainThread == main_returns \/ main_panics \/ park_continue \/ park_finish

NextThreads ==
    \/ launch
    \/ validate_config
    \/ search_configured
    \/ search_system
    \/ search_fallback
    \/ pick_path
    \/ try_launch_jvm
    \/ attach_current_thread
    \/ call_main
    \/ wait_and_close
    \/ close_final
    \/ main_returns
    \/ main_panics
    \/ park_continue
    \/ park_finish

\* Both threads are scheduled: the thread that runs create_and_run_jvm takes
\* its next step, and the main thread takes its next step.
SpecThreads ==
    /\ InitThreads
    /\ [][NextThreads]_vars
    /\ WF_vars(Next)
    /\ WF_vars(MainThread)

----------------------------------------------------------------------------
----------------------------------------------------------------------------
\* file_handler.rs: the resolver that returns the strategies as closures.

\* file_handler.rs compatible_java_version: Some(found_ver >= req_ver) when a
\* JAVA_VERSION line parses as an integer; None when the release file cannot
\* be opened, has no such line, or the value does not parse.
fh_compatible_java_version(meta, req_ver) ==
    CASE meta.k \in {"NoFile", "NoKey", "NotInt"} -> "None"
      [] meta.k = "Ver" -> IF meta.v >= req_ver THEN "Some_true" ELSE "Some_false"

\* Number of entries of JVM_LOC_QUERIES that the build keeps.
fh_JVM_LOC_QUERIES_LEN(os) ==
    CASE os = "windows" -> 11
      [] os = "linux"   -> 4
      [] os = "macos"   -> 6

Strategy(kind, i) == [kind |-> kind, loc |-> i]

RECURSIVE push_locations_without_break(_, _, _)
push_locations_without_break(paths, i, n) ==
    IF i > n
    THEN paths
    ELSE push_locations_without_break(Append(paths, Strategy("location", i)),
                                      i + 1, n)

\* `for loc in JVM_LOC_QUERIES.iter() { push; if jvm_paths.len() > 3 { break } }`
RECURSIVE push_locations(_, _, _)
push_locations(paths, i, n) ==
    IF i > n
    THEN paths
    ELSE LET pushed == Append(paths, Strategy("location", i))
         IN  IF Len(pushed) > 3
             THEN pushed
             ELSE push_locations(pushed, i + 1, n)

\* The list get_jvm_paths builds: the configured or the working directory,
\* the search below JAVA_HOME, JAVA_HOME itself, the common locations.
fh_jvm_paths(runtime, os) ==
    LET p1 == <<Strategy(IF runtime THEN "explicit" ELSE "cwd", 0)>>
        p2 == IF Len(p1) < 4
              THEN Append(p1, Strategy("java_home_search", 0)) ELSE p1
        p3 == IF Len(p2) < 4
              THEN Append(p2, Strategy("java_home", 0)) ELSE p2
    IN  IF Len(p3) < 4
        THEN push_locations(p3, 1, fh_JVM_LOC_QUERIES_LEN(os))
        ELSE p3

\* One closure, called with what the host answers: env (current_dir() or
\* JAVA_HOME is there), r (what find_file and the release file give), canon
\* (canonicalize succeeds).  The record tells whether a tree was searched,
\* whether a candidate was found, the verdict on it and whether the closure
\* returned Some.
fh_closure(strategy, min_java_ver, env, r, canon) ==
    LET kind     == strategy.kind
        rooted   == kind \in {"explicit", "location"} \/ env
        searched == kind # "java_home" /\ rooted
        found    == IF kind = "java_home" THEN env ELSE searched /\ r.found
        verdict  == IF found
                    THEN fh_compatible_java_version(r.meta, min_java_ver)
                    ELSE "NA"
        ret      == \/ verdict = "Some_true" /\ canon
                    \/ kind = "explicit" /\ verdict = "None" /\ min_java_ver = 0
    IN  [strategy |-> strategy, searched |-> searched, found |-> found,
         verdict |-> verdict, ret |-> ret]

Hosts == {"windows", "linux", "macos"}

InitResolver ==
    /\ config = NoConfigFile
    /\ NotLaunched
    /\ proc = [os |-> "not_macos", rounds |-> 0]
    /\ fh \in [os : Hosts, runtime : BOOLEAN, min_java : 0..MaxJava,
                built : {FALSE}, jvm_paths : {<<>>}, next : {1},
                calls : {<<>>}]
    /\ cls = NoIntrospection
    /\ lc = NoLaunchConfig
    /\ fs = NoFileSystem
    /\ mp = NoParse

\* get_jvm_paths(launch_opts) returns the closures.
fh_get_jvm_paths ==
    /\ ~fh.built
    /\ fh' = [fh EXCEPT !.built = TRUE,
                         !.jvm_paths = fh_jvm_paths(fh.runtime, fh.os)]
    /\ UNCHANGED <<config, pc, done, loc, jvm_paths, jvm_path, had_jvm_path,
                   jvm, messages, events, outcome, prevDiag, lc, fs, proc, cls, mp>>

\* The caller takes the next closure of the list and calls it (FnOnce).
fh_call_closure ==
    /\ fh.built
    /\ fh.next <= Len(fh.jvm_paths)
    /\ \E env \in BOOLEAN, r \in FindResults, canon \in BOOLEAN :
         fh' = [fh EXCEPT
                  !.next = @ + 1,
                  !.calls = Append(@, fh_closure(fh.jvm_paths[fh.next],
                                                 fh.min_java, env, r, canon))]
    /\ UNCHANGED <<config, pc, done, loc, jvm_paths, jvm_path, had_jvm_path,
                   jvm, messages, events, outcome, prevDiag, lc, fs, proc, cls, mp>>

NextResolver == fh_get_jvm_paths \/ fh_call_closure

SpecResolver == InitResolver /\ [][NextResolver]_vars

----------------------------------------------------------------------------
\* file_handler.rs: the version of the entry-point class file.

\* The first four bytes of a class file, 0xCAFEBABE.
CLASS_MAGIC == <<202, 254, 186, 190>>

\* A class file header: magic, minor version, major version (hi, lo).
ClassHeader(hi, lo) == CLASS_MAGIC \o <<0, 0, hi, lo>>

\* u8::to_be: a single byte has no byte order.
to_be(b) == b

\* u16::from_be_bytes.
u16_from_be_bytes(bytes) == bytes[1] * 256 + bytes[2]

\* u32::from_be_bytes; the u32 is kept as its two 16-bit halves, high first.
u32_from_be_bytes(bytes) ==
    <<u16_from_be_bytes(SubSeq(bytes, 1, 2)), u16_from_be_bytes(SubSeq(bytes, 3, 4))>>

\* 0xCAFEBABE as its halves 0xCAFE and 0xBABE.
CAFEBABE == <<51966, 47806>>

\* Read::read_exact into a buffer of n bytes.
read_exact(reader, n) ==
    IF Len(reader) >= n
    THEN [ok |-> TRUE, buffer |-> SubSeq(reader, 1, n)]
    ELSE [ok |-> FALSE, buffer |-> <<>>]

read_class_version_to_java_any_magic(reader) ==
    LET rd == read_exact(reader, 8)
    IN  IF ~rd.ok
        THEN NoVersion
        ELSE LET major_version == u16_from_be_bytes(SubSeq(rd.buffer, 7, 8))
             IN  IF major_version >= 45
                 THEN SomeVersion((major_version - 44) % 65536)
                 ELSE NoVersion

read_class_version_to_java_minus_45(reader) ==
    LET rd == read_exact(reader, 8)
    IN  IF ~rd.ok
        THEN NoVersion
        ELSE LET magic_number  == u32_from_be_bytes(SubSeq(rd.buffer, 1, 4))
                 major_version == u16_from_be_bytes(SubSeq(rd.buffer, 7, 8))
             IN  IF magic_number = CAFEBABE /\ major_version >= 45
                 THEN SomeVersion((major_version - 45) % 65536)
                 ELSE NoVersion

\* read_class_version_to_java: None when 8 bytes cannot be read, when the
\* magic number is not 0xCAFEBABE, when the major version is below 45; otherwise Some(major_version - 44), a u16.
read_class_version_to_java(reader) ==
    LET rd == read_exact(reader, 8)
    IN  IF ~rd.ok
        THEN NoVersion
        ELSE LET buffer        == [i \in 1..8 |-> to_be(rd.buffer[i])]
                 magic_number  == u32_from_be_bytes(SubSeq(buffer, 1, 4))
                 major_version == u16_from_be_bytes(SubSeq(buffer, 7, 8))
             IN  IF magic_number = CAFEBABE
                 THEN IF major_version >= 45
                      THEN SomeVersion((major_version - 44) % 65536)
                      ELSE NoVersion
                 ELSE NoVersion

\* `for jar_str in classpath`: skip what does not exist, read the class file
\* of a directory or a jar that has it, return on Some(version), go on to
\* the next entry otherwise.  `inspected` tells which class files were read.
RECURSIVE scan_classpath(_, _, _)
scan_classpath(classpath, i, inspected) ==
    IF i > Len(classpath)
    THEN [ret |-> NoVersion, inspected |-> inspected]
    ELSE IF ~classpath[i].exists \/ ~classpath[i].artifact
    THEN scan_classpath(classpath, i + 1, inspected)
    ELSE LET version == read_class_version_to_java(classpath[i].header)
             seen    == Append(inspected, [entry |-> i, version |-> version])
         IN  IF version.some
             THEN [ret |-> version, inspected |-> seen]
             ELSE scan_classpath(classpath, i + 1, seen)

get_java_version_of_main(main_class, classpath) ==
    IF main_class
    THEN scan_classpath(classpath, 1, <<>>)
    ELSE [ret |-> NoVersion, inspected |-> <<>>]

\* Option::unwrap_or.
unwrap_or(opt, default) == IF opt.some THEN opt.v ELSE default

\* Headers of class files: every low byte and every high byte of the major
\* version around the bounds, wrong magic numbers (the byte-swapped one
\* included), and files shorter than a header.
Headers ==
    {ClassHeader(hi, lo) : hi \in {0, 1, 255}, lo \in 0..255}
        \cup {ClassHeader(hi, lo) : hi \in 0..255, lo \in {0, 44, 45, 255}}
        \cup {<<a, b, c, d, 0, 0, 0, 52>> :
                 a \in {202, 190, 0}, b \in {254, 186, 0},
                 c \in {186, 254, 0}, d \in {190, 202, 0}}
        \cup {SubSeq(ClassHeader(0, 52), 1, n) : n \in 0..7}

SmallHeaders ==
    {ClassHeader(0, 44 + v) : v \in 0..MaxJava}
        \cup {<<190, 186, 254, 202, 0, 0, 0, 52>>,
              SubSeq(ClassHeader(0, 52), 1, 7)}

\* A classpath entry: a path that does not exist, a directory or a jar
\* without the class file of the main class, or one with it.
ClasspathEntry(exists, dir, artifact, header) ==
    [exists |-> exists, dir |-> dir, artifact |-> artifact, header |-> header]

EntriesWith(headers) ==
    {ClasspathEntry(FALSE, FALSE, FALSE, <<>>)}
        \cup {ClasspathEntry(TRUE, d, FALSE, <<>>) : d \in BOOLEAN}
        \cup {ClasspathEntry(TRUE, d, TRUE, h) : d \in BOOLEAN, h \in headers}

Classpaths == UNION {[1..n -> EntriesWith(SmallHeaders)] : n \in 0..MaxClasspath}

Introspection(main_class, classpath, declared_min) ==
    [NoIntrospection EXCEPT !.main_class = main_class,
                            !.classpath = classpath,
                            !.declared_min = declared_min]

\* Either one class file with any of Headers, or a classpath of up to
\* MaxClasspath entries, a main class that may be missing, and a minimum that
\* the configuration file may declare.
InitIntrospector ==
    /\ config = NoConfigFile
    /\ NotLaunched
    /\ proc = [os |-> "not_macos", rounds |-> 0]
    /\ fh = NoResolver
    /\ lc = NoLaunchConfig
    /\ fs = NoFileSystem
    /\ mp = NoParse
    /\ \/ \E h \in Headers :
            cls = Introspection(TRUE, <<ClasspathEntry(TRUE, FALSE, TRUE, h)>>, 0)
       \/ \E mc \in BOOLEAN, cp \in Classpaths, d \in 0..MaxJava :
            cls = Introspection(mc, cp, d)

call_consuming_classpath ==
    /\ Len(cls.calls) < MaxCalls
    /\ cls' = [cls EXCEPT
                 !.calls = Append(@, get_java_version_of_main(cls.main_class,
                                                              cls.classpath)),
                 !.classpath = IF @ = <<>> THEN @ ELSE Tail(@)]
    /\ UNCHANGED <<config, pc, done, loc, jvm_paths, jvm_path, had_jvm_path,
                   jvm, messages, events, outcome, prevDiag, lc, fs, proc, fh, mp>>

\* A call of get_java_version_of_main(&main_class, &classpath).
call_get_java_version_of_main ==
    /\ Len(cls.calls) < MaxCalls
    /\ cls' = [cls EXCEPT
                 !.calls = Append(@, get_java_version_of_main(cls.main_class,
                                                              cls.classpath))]
    /\ UNCHANGED <<config, pc, done, loc, jvm_paths, jvm_path, had_jvm_path,
                   jvm, messages, events, outcome, prevDiag, lc, fs, proc, fh, mp>>

Max(a, b) == IF a >= b THEN a ELSE b

process_config_merging_declared ==
    /\ cls.phase = "config"
    /\ IF ~cls.main_class
       THEN cls' = [cls EXCEPT !.phase = "panicked"]
       ELSE LET derived == get_java_version_of_main(cls.main_class,
                                                    cls.classpath).ret
                merged  == Max(cls.declared_min, unwrap_or(derived, 0))
            IN  cls' = [cls EXCEPT
                          !.phase = "processed",
                          !.min_java = IF merged = 0 THEN NoVersion
                                       ELSE SomeVersion(merged)]
    /\ UNCHANGED <<config, pc, done, loc, jvm_paths, jvm_path, had_jvm_path,
                   jvm, messages, events, outcome, prevDiag, lc, fs, proc, fh, mp>>

\* process_config builds the LaunchConfig: main_class.clone().unwrap(), then
\* min_java: get_java_version_of_main(&main_class, &lookup_path).  No key of
\* the configuration file is read for min_java.
process_config ==
    /\ cls.phase = "config"
    /\ IF ~cls.main_class
       THEN cls' = [cls EXCEPT !.phase = "panicked"]
       ELSE cls' = [cls EXCEPT
                      !.phase = "processed",
                      !.min_java = get_java_version_of_main(cls.main_class,
                                                            cls.classpath).ret]
    /\ UNCHANGED <<config, pc, done, loc, jvm_paths, jvm_path, had_jvm_path,
                   jvm, messages, events, outcome, prevDiag, lc, fs, proc, fh, mp>>

\* get_jvm_paths: `let min_java_ver = launch_opts.config.min_java.unwrap_or(0)`.
read_min_java ==
    /\ cls.phase = "processed"
    /\ Len(cls.reads) < MaxCalls
    /\ cls' = [cls EXCEPT !.reads = Append(@, unwrap_or(cls.min_java, 0))]
    /\ UNCHANGED <<config, pc, done, loc, jvm_paths, jvm_path, had_jvm_path,
                   jvm, messages, events, outcome, prevDiag, lc, fs, proc, fh, mp>>

NextIntrospector ==
    \/ call_get_java_version_of_main
    \/ process_config
    \/ read_min_java

SpecIntrospector == InitIntrospector /\ [][NextIntrospector]_vars

----------------------------------------------------------------------------
\* launch_config.rs: the configuration files, the LaunchConfig made of them,
\* and the options handed to the runtime (main.rs, java_launcher.rs).

\* launch_config.rs SEPARATOR, cfg(not(target_os = "windows")).
SEPARATOR == ":"

\* Lines a file may have under java-options: an option the runtime takes as
\* it is, a module option with a space before its value and the same with
\* `=`, a maximum heap, and an option with a NUL byte inside, of which
\* CString::new in InitArgsBuilder::option makes an error.
PlainOption == "-Dapp.name=why"

SpacedModuleOption == "--add-opens java.base/java.lang ALL-UNNAMED"

JoinedModuleOption == "--add-opens=java.base/java.lang=ALL-UNNAMED"

HeapOption == "-Xmx1g"

NulOption == "-Dbroken=<NUL>"

RawOptions ==
    {PlainOption, SpacedModuleOption, JoinedModuleOption, HeapOption, NulOption}

\* format!("-Djpackage.app-path={}", get_exec_path()).
AppPathOption == "-Djpackage.app-path=/opt/why/bin/why"

Values == {"a", "b"}

SeqsUpTo(S, n) == UNION {[1..k -> S] : k \in 0..n}

Range(seq) == {seq[i] : i \in 1..Len(seq)}

\* The values app.memory is given in the files: fractions of total memory.
MemoryHints == {<<>>, <<"0">>, <<"0.5">>, <<"1.5">>}

\* Vec::join.
RECURSIVE join(_, _)
join(seq, sep) ==
    IF seq = <<>> THEN ""
    ELSE IF Len(seq) = 1 THEN seq[1]
    ELSE seq[1] \o sep \o join(Tail(seq), sep)

push_missing_and_present(entry_vec, values) == entry_vec \o values

\* read_config, "Avoid inserting duplicates": the values of the secondary
\* file that the entry does not hold yet are pushed after those it holds.
RECURSIVE push_missing(_, _)
push_missing(entry_vec, values) ==
    IF values = <<>>
    THEN entry_vec
    ELSE push_missing(IF Head(values) \in Range(entry_vec)
                      THEN entry_vec
                      ELSE Append(entry_vec, Head(values)),
                      Tail(values))

\* read_config: `merged = primary.clone()`, then every key of the secondary.
merge(primary, secondary) ==
    [k \in DOMAIN primary |-> push_missing(primary[k], secondary[k])]

\* process_config, Add-Opens: two options for every package.
RECURSIVE add_opens_options(_)
add_opens_options(packages) ==
    IF packages = <<>>
    THEN <<>>
    ELSE <<"--add-opens", Head(packages) \o "=ALL-UNNAMED">>
             \o add_opens_options(Tail(packages))

\* What process_config takes from the manifest of the main jar: a panic on
\* `manifest[&None]` when the manifest has no main section.
manifest_part(cfg, manifests) ==
    IF cfg.mainjar = <<>>
    THEN [panic |-> FALSE, main_class |-> <<>>, classpath |-> <<>>,
          options |-> <<>>, lookup_path |-> <<>>]
    ELSE LET m == manifests[cfg.mainjar[Len(cfg.mainjar)]]
             first == <<cfg.mainjar[1]>>
         IN  IF ~m.ok
             THEN [panic |-> FALSE, main_class |-> <<>>, classpath |-> first,
                   options |-> <<>>, lookup_path |-> first]
             ELSE [panic |-> ~m.main_section,
                   main_class |-> m.main_class,
                   classpath |-> m.class_path \o first,
                   options |-> add_opens_options(m.add_opens),
                   lookup_path |-> first]

process_config_appending_heap(cfg, manifests) ==
    LET mf         == manifest_part(cfg, manifests)
        classpath  == cfg.classpath \o mf.classpath
        main_class == IF cfg.mainclass # <<>>
                      THEN <<cfg.mainclass[Len(cfg.mainclass)]>>
                      ELSE mf.main_class
        options    == cfg.java_options \o mf.options \o <<AppPathOption>>
                        \o (IF classpath # <<>>
                            THEN <<"-Djava.class.path=" \o join(classpath, SEPARATOR)>>
                            ELSE <<>>)
                        \o (IF cfg.memory # <<>> /\ HeapOption \notin Range(cfg.java_options)
                            THEN <<"-Xmx" \o cfg.memory[1]>>
                            ELSE <<>>)
    IN  [panic  |-> mf.panic \/ main_class = <<>>,
         config |-> [main_class  |-> IF main_class = <<>> THEN "" ELSE main_class[1],
                     runtime     |-> IF cfg.runtime # <<>>
                                     THEN cfg.runtime[Len(cfg.runtime)]
                                     ELSE "default",
                     java_opts   |-> options,
                     classpath   |-> classpath,
                     lookup_path |-> IF mf.lookup_path = <<>>
                                     THEN classpath ELSE mf.lookup_path,
                     program_opts |-> cfg.arguments]]

process_config_always_classpath(cfg, manifests) ==
    LET mf         == manifest_part(cfg, manifests)
        classpath  == cfg.classpath \o mf.classpath
        main_class == IF cfg.mainclass # <<>>
                      THEN <<cfg.mainclass[Len(cfg.mainclass)]>>
                      ELSE mf.main_class
        options    == cfg.java_options \o mf.options \o <<AppPathOption>>
                        \o <<"-Djava.class.path=" \o join(classpath, SEPARATOR)>>
    IN  [panic  |-> mf.panic \/ main_class = <<>>,
         config |-> [main_class  |-> IF main_class = <<>> THEN "" ELSE main_class[1],
                     runtime     |-> IF cfg.runtime # <<>>
                                     THEN cfg.runtime[Len(cfg.runtime)]
                                     ELSE "default",
                     java_opts   |-> options,
                     classpath   |-> classpath,
                     lookup_path |-> IF mf.lookup_path = <<>>
                                     THEN classpath ELSE mf.lookup_path,
                     program_opts |-> cfg.arguments]]

\* process_config: java-options, app.classpath, the manifest of
\* app.mainjar (read from the last value, the first value is what goes on
\* the classpath), app.mainclass (last value), app.runtime (last value, else
\* the default runtime), app.memory (read, not used), the app-path option,
\* the classpath option when the classpath is not empty, and
\* main_class.clone().unwrap().
process_config_of(cfg, manifests) ==
    LET mf         == manifest_part(cfg, manifests)
        classpath  == cfg.classpath \o mf.classpath
        main_class == IF cfg.mainclass # <<>>
                      THEN <<cfg.mainclass[Len(cfg.mainclass)]>>
                      ELSE mf.main_class
        options    == cfg.java_options \o mf.options \o <<AppPathOption>>
                        \o (IF Len(classpath) > 0
                            THEN <<"-Djava.class.path=" \o join(classpath, SEPARATOR)>>
                            ELSE <<>>)
    IN  [panic  |-> mf.panic \/ main_class = <<>>,
         config |-> [main_class  |-> IF main_class = <<>> THEN "" ELSE main_class[1],
                     runtime     |-> IF cfg.runtime # <<>>
                                     THEN cfg.runtime[Len(cfg.runtime)]
                                     ELSE "default",
                     java_opts   |-> options,
                     classpath   |-> classpath,
                     lookup_path |-> IF mf.lookup_path = <<>>
                                     THEN classpath ELSE mf.lookup_path,
                     program_opts |-> cfg.arguments]]

\* make_jvm_args: every option goes to InitArgsBuilder::option as it is, and
\* build() is Err when one of them could not be made a C string.
make_jvm_args(jvm_opts) ==
    IF NulOption \in Range(jvm_opts)
    THEN [ok |-> FALSE, options |-> <<>>]
    ELSE [ok |-> TRUE, options |-> jvm_opts]

\* The manifests of the jars a and b.
ManifestKinds ==
    {NoManifest,
     Manifest(TRUE, FALSE, <<>>, <<>>, <<>>),
     Manifest(TRUE, TRUE, <<>>, <<>>, <<>>),
     Manifest(TRUE, TRUE, <<"app.Main">>, <<>>, <<>>),
     Manifest(TRUE, TRUE, <<"app.Main">>, <<"lib.jar">>, <<>>),
     Manifest(TRUE, TRUE, <<"app.Main">>, <<>>, <<"java.base/java.lang">>)}

ManifestOf(jar) == Manifest(TRUE, TRUE, <<"main.of." \o jar>>, <<>>, <<>>)

Files(primary, overlay, secondary, manifests) ==
    [NoLaunchConfig EXCEPT !.primary = primary, !.overlay = overlay,
                           !.secondary = secondary, !.manifests = manifests]

\* Files with options, a classpath and a memory hint; files with a main jar;
\* files with `arguments`, started with arguments on the command line;
\* files with an unterminated section header; and a primary file with a
\* secondary one, both setting one of app.mainclass, app.runtime, app.mainjar
\* (with app.runtime the main class is m in both, with app.mainjar it is the
\* one the manifest names).
InitConfig ==
    /\ config = NoConfigFile
    /\ NotLaunched
    /\ proc = [os |-> "not_macos", rounds |-> 0]
    /\ fh = NoResolver
    /\ cls = NoIntrospection
    /\ fs = NoFileSystem
    /\ mp = NoParse
    /\ \/ \E opts \in SeqsUpTo(RawOptions, MaxOptions),
             cp \in SeqsUpTo(Values, MaxValues), mem \in MemoryHints :
            lc = Files(ConfigFile(FALSE, opts, cp, <<>>, <<"a">>, <<>>, mem),
                       "NoPath", EmptyFile, NoLaunchConfig.manifests)
       \/ \E m \in ManifestKinds, mc \in SeqsUpTo(Values, 1),
             cp \in SeqsUpTo(Values, MaxValues) :
            lc = Files(ConfigFile(FALSE, <<PlainOption>>, cp, <<"a">>, mc, <<>>, <<>>),
                       "Missing", EmptyFile,
                       [jar \in Values |-> IF jar = "a" THEN m ELSE NoManifest])
       \/ \E cli \in SeqsUpTo(Values, MaxValues),
             arguments \in SeqsUpTo(Values, MaxValues) :
            lc = [Files(WithArguments(ConfigFile(FALSE, <<PlainOption>>, <<>>,
                                                 <<>>, <<"a">>, <<>>, <<>>),
                                      arguments),
                        "NoPath", EmptyFile, NoLaunchConfig.manifests)
                    EXCEPT !.cli = cli]
       \/ \E bad \in {"primary", "secondary"} :
            lc = Files(ConfigFile(bad = "primary", <<>>, <<>>, <<>>, <<"a">>, <<>>, <<>>),
                       "Present",
                       ConfigFile(bad = "secondary", <<>>, <<>>, <<>>, <<>>, <<>>, <<>>),
                       NoLaunchConfig.manifests)
       \/ \E key \in {"mainclass", "runtime", "mainjar"},
             p \in SeqsUpTo(Values, MaxValues), q \in SeqsUpTo(Values, MaxValues) :
            LET file(v) ==
                    ConfigFile(FALSE, <<>>, <<>>,
                               IF key = "mainjar" THEN v ELSE <<>>,
                               IF key = "mainclass" THEN v
                               ELSE IF key = "runtime" THEN <<"m">> ELSE <<>>,
                               IF key = "runtime" THEN v ELSE <<>>, <<>>)
            IN  lc = Files(file(p), "Present", file(q),
                           [jar \in Values |-> ManifestOf(jar)])

\* read_config: parse the primary file, parse and merge the secondary one
\* when get_config_overlay_path names a file that exists, process_config.
read_config ==
    /\ lc.phase = "files"
    /\ LET with_secondary == lc.overlay = "Present"
           parse_panics   == \/ lc.primary.bad_header
                             \/ with_secondary /\ lc.secondary.bad_header
           cfg            == IF with_secondary
                             THEN merge(lc.primary.keys, lc.secondary.keys)
                             ELSE lc.primary.keys
           built          == process_config_of(cfg, lc.manifests)
       IN  IF parse_panics \/ built.panic
           THEN lc' = [lc EXCEPT !.phase = "panicked",
                                 !.cfg = IF parse_panics THEN @ ELSE cfg]
           ELSE lc' = [lc EXCEPT !.phase = "config", !.cfg = cfg,
                                 !.config = built.config]
    /\ UNCHANGED <<config, pc, done, loc, jvm_paths, jvm_path, had_jvm_path,
                   jvm, messages, events, outcome, prevDiag, proc, fh, cls, fs, mp>>

\* launch(): `jvm_opts.append(&mut launch_options.config.java_opts)`, which
\* moves the options out of the configuration, and the same for program_opts,
\* which starts as `env::args().skip(1).collect()`.
forward_options ==
    /\ lc.phase = "config"
    /\ lc' = [lc EXCEPT !.phase = "options",
                        !.jvm_opts = @ \o lc.config.java_opts,
                        !.config.java_opts = <<>>,
                        !.program_opts = lc.cli \o lc.config.program_opts,
                        !.config.program_opts = <<>>]
    /\ UNCHANGED <<config, pc, done, loc, jvm_paths, jvm_path, had_jvm_path,
                   jvm, messages, events, outcome, prevDiag, proc, fh, cls, fs, mp>>

\* try_launch_jvm on a path that was found: make_jvm_args, and either the
\* diagnostic "Failed to create JVM arguments" and no runtime, or
\* JavaVM::with_libjvm with the arguments.
launch_with_args ==
    /\ lc.phase = "options"
    /\ LET args == make_jvm_args(lc.jvm_opts)
       IN  lc' = [lc EXCEPT
                    !.phase = "launched",
                    !.args = args,
                    !.notices = IF args.ok THEN @ ELSE Append(@, "FailedJvmArgs"),
                    !.created = args.ok]
    /\ UNCHANGED <<config, pc, done, loc, jvm_paths, jvm_path, had_jvm_path,
                   jvm, messages, events, outcome, prevDiag, proc, fh, cls, fs, mp>>

\* The outcomes of a call that hands a String to a method compiled for a
\* String[]: JNI does not check the types of the arguments.
MistypedCallOutcomes == {"Ok", "Err", "crash"}

\* create_and_run_jvm once the runtime is there: attach_current_thread_as_daemon,
\* then one JValue::Object of a new_string for every program option, and
\* env.call_static_method(main_class, "main", "([Ljava/lang/String;)V", &opts[..]).
\* The signature has one parameter, and call_static_method answers
\* InvalidArgList without calling when it is not given exactly one value.
convert_and_call_main ==
    /\ lc.phase = "launched"
    /\ lc.created
    /\ \/ lc' = [lc EXCEPT !.phase = "attach_failed",
                           !.notices = Append(@, "AttachFailed")]
       \/ LET opts == lc.program_opts
          IN  IF Len(opts) # 1
              THEN lc' = [lc EXCEPT
                            !.phase = "called",
                            !.call = [made |-> FALSE, nargs |-> Len(opts),
                                      strings |-> opts, array |-> FALSE,
                                      result |-> "InvalidArgList"],
                            !.notices = Append(@, "StartAppFailed")]
              ELSE \E r \in MistypedCallOutcomes :
                     lc' = [lc EXCEPT
                              !.phase = "called",
                              !.call = [made |-> TRUE, nargs |-> 1,
                                        strings |-> opts, array |-> FALSE,
                                        result |-> r],
                              !.notices = IF r = "Err"
                                          THEN Append(@, "StartAppFailed")
                                          ELSE @]
    /\ UNCHANGED <<config, pc, done, loc, jvm_paths, jvm_path, had_jvm_path,
                   jvm, messages, events, outcome, prevDiag, proc, fh, cls, fs, mp>>

NextConfig ==
    read_config \/ forward_options \/ launch_with_args \/ convert_and_call_main

SpecConfig == InitConfig /\ [][NextConfig]_vars

----------------------------------------------------------------------------
\* file_handler.rs, java_launcher.rs: find_file, the walk of a directory
\* tree for a file name.  A path is the sequence of the names below the root.

\* WalkDir::new(root).max_depth(5).
MAX_DEPTH == 5

\* DYN_JAVA_LIB, cfg(target_os = "linux").
Wanted == "libjvm.so"

HiddenNames == {".h", ".jdks"}

is_hidden_never(name) == FALSE

\* is_hidden: the name of the entry starts with ".".
is_hidden(name) == name \in HiddenNames

Last(seq) == seq[Len(seq)]

Prefixes(path) == {SubSeq(path, 1, k) : k \in 1..Len(path)}

\* Places of a file or directory named like the library: at the root, in
\* plain directories, in a hidden one, 5 and 6 levels down, inside a
\* directory that has the name of the library itself; and one other file.
CandidatePaths ==
    {<<Wanted>>, <<"d", Wanted>>, <<"e", Wanted>>, <<".h", Wanted>>,
     <<"d", ".h", Wanted>>, <<"d", "d", "d", "d", Wanted>>,
     <<"d", "d", "d", "d", "d", Wanted>>, <<"d", Wanted, Wanted>>,
     <<"d", "other">>}

Trees ==
    {UNION {Prefixes(path) : path \in leaves} :
        leaves \in {L \in SUBSET CandidatePaths : Cardinality(L) <= MaxLeaves}}

\* A root that ends with a plain name, a hidden name, or the wanted name.
RootNames == {"jdk", ".jdks", Wanted}

Children(tree, path) ==
    {q \in tree : Len(q) = Len(path) + 1 /\ SubSeq(q, 1, Len(path)) = path}

\* The entries of a directory the walk has still to yield: WalkDir goes no
\* deeper than max_depth, and filter_entry neither yields an entry that
\* is_hidden nor descends into it.
Unvisited(path) ==
    IF Len(path) >= MAX_DEPTH
    THEN {}
    ELSE {q \in Children(fs.tree, path) :
            ~is_hidden(Last(q)) /\ q \notin Range(fs.yielded)}

\* Depth first: the entries of the deepest directory on the way to the
\* last entry yielded that has entries left, in the order the OS gives them.
NextEntries ==
    LET open == {k \in 0..Len(fs.cur) : Unvisited(SubSeq(fs.cur, 1, k)) # {}}
    IN  IF open = {}
        THEN {}
        ELSE Unvisited(SubSeq(fs.cur, 1,
                              CHOOSE k \in open : \A j \in open : j <= k))

InitWalk ==
    /\ config = NoConfigFile
    /\ NotLaunched
    /\ proc = [os |-> "not_macos", rounds |-> 0]
    /\ fh = NoResolver
    /\ cls = NoIntrospection
    /\ lc = NoLaunchConfig
    /\ mp = NoParse
    /\ \E name \in RootNames, exists \in BOOLEAN, tree \in Trees :
         /\ ~exists => tree = {}
         /\ fs = [NoFileSystem EXCEPT !.root = [name |-> name, exists |-> exists],
                                      !.tree = tree]

\* find_file, before the loop: a root that ends with the file name is the
\* answer, whether it exists or not.
find_file ==
    /\ fs.phase = "idle"
    /\ IF fs.root.name = Wanted
       THEN fs' = [fs EXCEPT !.phase = "done",
                             !.result = [some |-> TRUE, path |-> <<>>]]
       ELSE fs' = [fs EXCEPT !.phase = "walking"]
    /\ UNCHANGED <<config, pc, done, loc, jvm_paths, jvm_path, had_jvm_path,
                   jvm, messages, events, outcome, prevDiag, proc, fh, cls, lc, mp>>

\* The first entry of the walker is the root: an Err when it does not exist
\* (`if let Ok(e)` passes it by), skipped by filter_entry with all below it
\* when its name is hidden, and else compared with the file name like any
\* other entry.
walk_root ==
    /\ fs.phase = "walking"
    /\ ~fs.started
    /\ IF fs.root.exists /\ ~is_hidden(fs.root.name)
       THEN fs' = [fs EXCEPT !.started = TRUE,
                             !.has_path = @ \/ fs.root.name = Wanted]
       ELSE fs' = [fs EXCEPT !.started = TRUE, !.phase = "walked"]
    /\ UNCHANGED <<config, pc, done, loc, jvm_paths, jvm_path, had_jvm_path,
                   jvm, messages, events, outcome, prevDiag, proc, fh, cls, lc, mp>>

walk_next_keeping_first ==
    /\ fs.phase = "walking"
    /\ fs.started
    /\ IF NextEntries = {}
       THEN fs' = [fs EXCEPT !.phase = "walked"]
       ELSE \E e \in NextEntries :
              fs' = [fs EXCEPT
                       !.yielded = Append(@, e),
                       !.cur = e,
                       !.path = IF Last(e) = Wanted /\ ~fs.has_path THEN e ELSE @,
                       !.has_path = @ \/ Last(e) = Wanted]
    /\ UNCHANGED <<config, pc, done, loc, jvm_paths, jvm_path, had_jvm_path,
                   jvm, messages, events, outcome, prevDiag, proc, fh, cls, lc, mp>>

\* One turn of `for entry in walker.filter_entry(..)`: an entry with the
\* name of the file becomes the path, in place of an earlier one.
walk_next ==
    /\ fs.phase = "walking"
    /\ fs.started
    /\ IF NextEntries = {}
       THEN fs' = [fs EXCEPT !.phase = "walked"]
       ELSE \E e \in NextEntries :
              fs' = [fs EXCEPT
                       !.yielded = Append(@, e),
                       !.cur = e,
                       !.path = IF Last(e) = Wanted THEN e ELSE @,
                       !.has_path = @ \/ Last(e) = Wanted]
    /\ UNCHANGED <<config, pc, done, loc, jvm_paths, jvm_path, had_jvm_path,
                   jvm, messages, events, outcome, prevDiag, proc, fh, cls, lc, mp>>

\* `if has_path { Some(path) } else { None }`.
find_file_return ==
    /\ fs.phase = "walked"
    /\ fs' = [fs EXCEPT !.phase = "done",
                        !.result = IF fs.has_path
                                   THEN [some |-> TRUE, path |-> fs.path]
                                   ELSE NoPathFound]
    /\ UNCHANGED <<config, pc, done, loc, jvm_paths, jvm_path, had_jvm_path,
                   jvm, messages, events, outcome, prevDiag, proc, fh, cls, lc, mp>>

NextWalk == find_file \/ walk_root \/ walk_next \/ find_file_return

SpecWalk == InitWalk /\ [][NextWalk]_vars

----------------------------------------------------------------------------
\* compatible_java_version of file_handler.rs and of java_launcher.rs: the
\* release file of the installation a library belongs to.  fs.anc[i] tells
\* what the i-th directory above the library holds under the name release:
\* nothing, a file with a JAVA_VERSION line, or a directory.

ReleaseKinds == {"none", "file", "dir"}

\* File::open of a directory: Ok on unix (the reads fail), Err on windows.
OracleHosts == {"unix", "windows"}

Min(a, b) == IF a <= b THEN a ELSE b

InitOracle ==
    /\ config = NoConfigFile
    /\ NotLaunched
    /\ proc = [os |-> "not_macos", rounds |-> 0]
    /\ fh = NoResolver
    /\ cls = NoIntrospection
    /\ lc = NoLaunchConfig
    /\ mp = NoParse
    /\ \E anc \in SeqsUpTo(ReleaseKinds, MaxAncestors), os \in OracleHosts :
         fs = [NoFileSystem EXCEPT !.anc = anc, !.os = os]

\* file_handler.rs: `let mut parent = jvm_path.parent()?` and
\* `release_path = parent.join("release")`, with c = 0.
fh_parent ==
    /\ fs.oracle.phase = "idle"
    /\ IF Len(fs.anc) = 0
       THEN fs' = [fs EXCEPT !.oracle.impl = "file_handler",
                             !.oracle.phase = "done", !.oracle.result = "None"]
       ELSE fs' = [fs EXCEPT !.oracle.impl = "file_handler",
                             !.oracle.phase = "while", !.oracle.i = 1]
    /\ UNCHANGED <<config, pc, done, loc, jvm_paths, jvm_path, had_jvm_path,
                   jvm, messages, events, outcome, prevDiag, proc, fh, cls, lc, mp>>

\* One test of `while !release_path.exists() && c < 4`, and the body:
\* `parent = parent.parent()?`, the release path of that parent, c += 1.
fh_while ==
    /\ fs.oracle.phase = "while"
    /\ LET o == fs.oracle
       IN  IF fs.anc[o.i] = "none" /\ o.c < 4
           THEN IF o.i + 1 > Len(fs.anc)
                THEN fs' = [fs EXCEPT !.oracle.phase = "done",
                                      !.oracle.result = "None"]
                ELSE fs' = [fs EXCEPT !.oracle.i = @ + 1, !.oracle.c = @ + 1]
           ELSE fs' = [fs EXCEPT !.oracle.phase = "open"]
    /\ UNCHANGED <<config, pc, done, loc, jvm_paths, jvm_path, had_jvm_path,
                   jvm, messages, events, outcome, prevDiag, proc, fh, cls, lc, mp>>

\* `if let Ok(file) = File::open(release_path)`, else None.
fh_open ==
    /\ fs.oracle.phase = "open"
    /\ LET kind == fs.anc[fs.oracle.i]
       IN  IF kind = "none" \/ (kind = "dir" /\ fs.os = "windows")
           THEN fs' = [fs EXCEPT !.oracle.phase = "done",
                                 !.oracle.result = "None",
                                 !.oracle.used = IF kind = "none" THEN 0
                                                 ELSE fs.oracle.i]
           ELSE fs' = [fs EXCEPT !.oracle.phase = "lines",
                                 !.oracle.used = fs.oracle.i]
    /\ UNCHANGED <<config, pc, done, loc, jvm_paths, jvm_path, had_jvm_path,
                   jvm, messages, events, outcome, prevDiag, proc, fh, cls, lc, mp>>

\* One turn of `for line in reader.lines().filter_map(|l| l.ok())`: the
\* JAVA_VERSION line of a file returns; reading a directory is an Err that
\* lines() gives again at every call and filter_map drops, so the loop asks
\* for the next line without end.
fh_lines ==
    /\ fs.oracle.phase = "lines"
    /\ IF fs.anc[fs.oracle.i] = "file"
       THEN fs' = [fs EXCEPT !.oracle.phase = "done", !.oracle.result = "Some"]
       ELSE fs' = [fs EXCEPT !.oracle.lines = 1 - @]
    /\ UNCHANGED <<config, pc, done, loc, jvm_paths, jvm_path, had_jvm_path,
                   jvm, messages, events, outcome, prevDiag, proc, fh, cls, lc, mp>>

\* java_launcher.rs: up 3 parents from the library (as far as there are
\* parents), then valid_path(find_file(java_folder, "release")): the last
\* entry named release that the walk below java_folder meets, which may be
\* that of any directory between the library and java_folder, and the INI
\* source of it, which a directory does not give.
jl_compatible_java_version ==
    /\ fs.oracle.phase = "idle"
    /\ LET java_folder == Min(3, Len(fs.anc))
           met         == {j \in 1..java_folder : fs.anc[j] # "none"}
       IN  IF met = {}
           THEN fs' = [fs EXCEPT !.oracle.impl = "java_launcher",
                                 !.oracle.phase = "done",
                                 !.oracle.result = "None"]
           ELSE \E j \in met :
                  fs' = [fs EXCEPT !.oracle.impl = "java_launcher",
                                   !.oracle.phase = "done",
                                   !.oracle.used = j,
                                   !.oracle.result = IF fs.anc[j] = "file"
                                                     THEN "Some" ELSE "None"]
    /\ UNCHANGED <<config, pc, done, loc, jvm_paths, jvm_path, had_jvm_path,
                   jvm, messages, events, outcome, prevDiag, proc, fh, cls, lc, mp>>

NextOracle ==
    fh_parent \/ fh_while \/ fh_open \/ fh_lines \/ jl_compatible_java_version

\* The thread that asked goes on as long as it has a step to take.
SpecOracle == InitOracle /\ [][NextOracle]_vars /\ WF_vars(NextOracle)

----------------------------------------------------------------------------
\* manifest_handler.rs: parse_manifest.  A Section and the Manifest are maps,
\* kept as sets of <<key, value>> with one pair for a key.

insert(map, key, value) == {e \in map : e[1] # key} \cup {<<key, value>>}

\* The lines of a manifest: the empty line, a header `key: value`, a line
\* that starts with a space, and a line that is none of these.
Blank == [kind |-> "blank", key |-> "", value |-> ""]

Header(key, value) == [kind |-> "header", key |-> key, value |-> value]

Continuation(rest) == [kind |-> "continuation", key |-> "", value |-> rest]

Malformed == [kind |-> "malformed", key |-> "", value |-> ""]

ManifestLines ==
    {Blank, Header("Main-Class", "app.Main"), Header("Name", "foo"),
     Header("Other", "y"), Continuation("z"), Malformed}

InitManifest ==
    /\ config = NoConfigFile
    /\ NotLaunched
    /\ proc = [os |-> "not_macos", rounds |-> 0]
    /\ fh = NoResolver
    /\ cls = NoIntrospection
    /\ lc = NoLaunchConfig
    /\ fs = NoFileSystem
    /\ \E lines \in SeqsUpTo(ManifestLines, MaxLines) :
         mp = [NoParse EXCEPT !.lines = lines]

\* One turn of `for line_res in manifest_file.lines()`.
parse_manifest_line ==
    /\ mp.phase = "lines"
    /\ mp.pos <= Len(mp.lines)
    /\ LET line == mp.lines[mp.pos]
           next == [mp EXCEPT !.pos = @ + 1]
       IN  CASE line.kind = "blank" ->
                  LET section == IF mp.current_key.some
                                 THEN insert(mp.current_section,
                                             mp.current_key.name,
                                             mp.current_value)
                                 ELSE mp.current_section
                  IN  mp' = [next EXCEPT
                               !.current_key = NoName,
                               !.manifest = insert(@, mp.current_section_key,
                                                   section),
                               !.current_section = {},
                               !.current_section_key = NoName,
                               !.current_value = ""]
              [] line.kind = "continuation" ->
                  mp' = [next EXCEPT
                           !.current_value = IF mp.current_key.some
                                             THEN @ \o line.value ELSE @]
              [] line.kind = "header" ->
                  mp' = [next EXCEPT
                           !.current_section =
                               IF mp.current_key.some /\ mp.current_key.name # "Name"
                               THEN insert(@, mp.current_key.name,
                                           mp.current_value)
                               ELSE @,
                           !.current_key = SomeName(line.key),
                           !.current_value = line.value,
                           !.current_section_key =
                               IF line.key = "Name"
                               THEN SomeName(line.value) ELSE @]
              [] OTHER -> mp' = [mp EXCEPT !.phase = "err"]
    /\ UNCHANGED <<config, pc, done, loc, jvm_paths, jvm_path, had_jvm_path,
                   jvm, messages, events, outcome, prevDiag, proc, fh, cls,
                   lc, fs>>

\* "Flush last header and section at EOF", and Ok(manifest).
parse_manifest_eof ==
    /\ mp.phase = "lines"
    /\ mp.pos > Len(mp.lines)
    /\ IF mp.current_key.some \/ mp.current_section # {}
       THEN LET section == IF mp.current_key.some
                           THEN insert(mp.current_section, mp.current_key.name,
                                       mp.current_value)
                           ELSE mp.current_section
            IN  mp' = [mp EXCEPT
                         !.phase = "ok",
                         !.current_key = NoName,
                         !.current_section = section,
                         !.manifest = insert(@, mp.current_section_key, section)]
       ELSE mp' = [mp EXCEPT !.phase = "ok"]
    /\ UNCHANGED <<config, pc, done, loc, jvm_paths, jvm_path, had_jvm_path,
                   jvm, messages, events, outcome, prevDiag, proc, fh, cls,
                   lc, fs>>

NextManifest == parse_manifest_line \/ parse_manifest_eof

SpecManifest == InitManifest /\ [][NextManifest]_vars

\* The strategies the configuration enables, and their priority.
ConfiguredTag == IF config.jvm_path THEN "explicit" ELSE "cwd"

EnabledStrategies ==
    {ConfiguredTag}
        \cup (IF config.allows_system_java THEN {"system"} ELSE {})
        \cup (IF config.allows_java_location_lookup THEN {"location"} ELSE {})

Priority(tag) ==
    CASE tag \in {"explicit", "cwd"} -> 1
      [] tag = "system"              -> 2
      [] tag = "location"            -> 3

TriedStrategies == {events[i].tag : i \in Probes}

AttachOrInvokeFailed ==
    \E i \in 1..Len(events) : events[i].kind \in {"attach", "invoke"} /\ ~events[i].ok

FailureOutcomes ==
    {"ConfigurationInvalid", "NoCandidateFound", "InitializationFailed",
     "AttachFailed", "InvocationFailed"}

NoCandidateEnd == pc = "done" /\ outcome = "NoCandidateFound"

\* create_and_run_jvm has returned after showing a failure diagnostic.
FailureDiagnosed ==
    /\ pc = "done"
    /\ outcome \in FailureOutcomes
    /\ Len(messages) > 0

----------------------------------------------------------------------------
\* C1: when create_and_run_jvm has returned and the runtime had been created,
\* DestroyJavaVM was called exactly once (also when attach or main failed).
C1_DestroyedExactlyOnce ==
    (pc = "done" /\ CreateSucceeded) => Cardinality(Destroys) = 1

\* C2: after a destroy, no native operation (attach, invoke, get_java_vm, or
\* another destroy) is made in the same run.
C2_NoNativeUseAfterDestroy ==
    \A i \in Destroys :
        \A j \in (i + 1)..Len(events) : events[j].kind \notin NativeKinds

\* C3: a failed create does not end the run: a run that ends after a failed
\* create, without a runtime, has invoked every strategy the configuration
\* enables.
C3_RetriesAfterFailedCreate ==
    (pc = "done" /\ CreateFailed /\ ~CreateSucceeded)
        => EnabledStrategies \subseteq TriedStrategies

\* C4: once attach or the call of main has failed, no strategy is invoked
\* and no create is attempted any more.
C4_FailureAfterCreateIsTerminal ==
    [][AttachOrInvokeFailed => (Probes' = Probes /\ Creates' = Creates)]_vars

\* C4 witness: the call of main failed after the only create, the run has
\* returned, and an enabled strategy was left untried.
C4_Witness ==
    /\ pc = "done"
    /\ outcome = "InvocationFailed"
    /\ Cardinality(Creates) = 1
    /\ config.allows_system_java
    /\ "system" \notin TriedStrategies

\* C5: a configuration without main class or without classpath ends in
\* ConfigurationInvalid with the "Invalid launcher config" diagnostic, with
\* no crash, no search and no create.
C5_InvalidConfigIsDiagnosed ==
    (config.file_exists /\ ~(config.main_class /\ config.classpath))
        => /\ pc # "panicked"
           /\ Probes = {}
           /\ Creates = {}
           /\ pc = "done" => /\ outcome = "ConfigurationInvalid"
                             /\ messages = <<[id |-> "InvalidConfig", ver |-> 0]>>

\* C6: strategies are invoked in priority order (configured path or working
\* directory, then system Java, then the fallback locations), and one is
\* invoked only after every enabled strategy of higher priority was invoked
\* and yielded no candidate.
C6_StrictPriorityOrder ==
    \A j \in Probes :
        /\ events[j].tag \in EnabledStrategies
        /\ \A i \in Probes :
               i < j => /\ Priority(events[i].tag) <= Priority(events[j].tag)
                        /\ ~events[i].ok
        /\ \A s \in EnabledStrategies :
               Priority(s) < Priority(events[j].tag)
                   => \E i \in Probes : i < j /\ events[i].tag = s /\ ~events[i].ok

\* C6 witness: all three strategies were invoked in turn and the last one
\* yielded the candidate the runtime was created from.
C6_Witness ==
    /\ \E i \in Probes : events[i].tag = "explicit"
    /\ \E i \in Probes : events[i].tag = "system"
    /\ \E i \in Probes : events[i].tag = "location" /\ events[i].ok
    /\ CreateSucceeded

\* C7: create is only ever called with a candidate that an earlier strategy
\* passed through the version gate, and never with one whose release metadata
\* declares a version below the requirement.
C7_GateBeforeCreate ==
    \A c \in Creates :
        /\ ~(events[c].meta.k = "Ver" /\ events[c].meta.v < config.min_java)
        /\ \E i \in Probes : /\ i < c
                             /\ events[i].ok
                             /\ events[i].tag = events[c].tag
                             /\ events[i].meta = events[c].meta

\* C7 witness: one strategy rejected an installation as too old and create was
\* called with a later candidate that meets the requirement exactly.
C7_Witness ==
    /\ RejectedAsTooOld
    /\ \E c \in Creates : events[c].meta.k = "Ver" /\ events[c].meta.v = config.min_java

\* C8: when the configured-path strategy yields a compatible candidate,
\* neither the system-Java lookup nor a fallback location is probed in that run.
C8_NoLaterLookupAfterExplicit ==
    (\E i \in Probes : events[i].tag \in {"explicit", "cwd"} /\ events[i].ok)
        => \A j \in Probes : events[j].tag \notin {"system", "location"}

\* C8 witness: the runtime ran from the configured path while both later
\* strategies were enabled.
C8_Witness ==
    /\ pc = "done"
    /\ outcome = "Started"
    /\ config.allows_system_java
    /\ config.allows_java_location_lookup
    /\ \E c \in Creates : events[c].tag = "explicit" /\ events[c].ok

C10_ExactlyOneDiagnostic ==
    (pc = "done" /\ outcome \in FailureOutcomes) => Len(messages) = 1

\* C11: once create_and_run_jvm has returned after a failure diagnostic, the
\* process eventually exits, on the main thread and on the macOS worker alike.
C11_ExitsAfterFailureDiagnostic == FailureDiagnosed ~> (pc = "exited")

\* What the oracle is specified to return on release metadata `meta` for the
\* requirement v.
OracleContract(meta, v) ==
    IF meta.k = "Ver"
    THEN IF meta.v >= v THEN "Some_true" ELSE "Some_false"
    ELSE "None"

\* C12: on every candidate a strategy finds, compatible_java_version returns
\* Some(true) iff the declared version is at least the requirement, None iff
\* the release file or the key is absent or unparsable, Some(false)
\* otherwise, and it does not panic.
C12_OracleTotalAndExact ==
    \A i \in Probes :
        events[i].found =>
            compatible_java_version(events[i].meta, config.min_java)
                = OracleContract(events[i].meta, config.min_java)

\* C13: in every strategy, with no requirement (0) a found candidate on which
\* the oracle returns None is accepted, and with a requirement a candidate is
\* accepted only when the oracle returns Some(true).
C13_UnknownAcceptedWithoutRequirement ==
    \A i \in 1..Len(fh.calls) :
        LET c == fh.calls[i]
        IN  /\ (fh.min_java = 0 /\ c.found /\ c.verdict = "None") => c.ret
            /\ (fh.min_java > 0 /\ c.ret) => c.verdict = "Some_true"

\* The closures that searched a directory tree (find_file).
TreeSearches == {i \in 1..Len(fh.calls) : fh.calls[i].searched}

\* C14: get_jvm_paths returns at most 4 closures, so a run makes at most 4
\* directory-tree searches, whatever the number of common locations.
C14_AtMostFourStrategies ==
    fh.built => /\ Len(fh.jvm_paths) <= 4
                /\ Len(fh.calls) <= 4
                /\ Cardinality(TreeSearches) <= 4

\* Every closure was called, and common locations were left out of the list.
C14_Witness ==
    /\ fh.built
    /\ Len(fh.jvm_paths) = 4
    /\ Len(fh.calls) = 4
    /\ fh.calls[4].strategy.kind = "location"
    /\ fh.calls[4].searched
    /\ fh_JVM_LOC_QUERIES_LEN(fh.os) > 1

\* The version a direct call of get_java_version_of_main returns, 0 for None.
DerivedVersion ==
    unwrap_or(get_java_version_of_main(cls.main_class, cls.classpath).ret, 0)

C16_NoVersionWithoutMagicOrHeader ==
    \A i \in 1..Len(cls.calls) :
        \A j \in 1..Len(cls.calls[i].inspected) :
            LET insp == cls.calls[i].inspected[j]
                h    == cls.classpath[insp.entry].header
            IN  (Len(h) < 8 \/ SubSeq(h, 1, 4) # CLASS_MAGIC) => ~insp.version.some

\* One call read a class file with the byte-swapped magic number and a class
\* file shorter than 8 bytes.
C16_Witness ==
    \E i \in 1..Len(cls.calls) :
        /\ Len(cls.calls[i].inspected) = 2
        /\ Len(cls.classpath[cls.calls[i].inspected[1].entry].header) = 8
        /\ SubSeq(cls.classpath[cls.calls[i].inspected[1].entry].header, 1, 4)
              # CLASS_MAGIC
        /\ Len(cls.classpath[cls.calls[i].inspected[2].entry].header) < 8

\* C17: on a header with the magic number and major version m, the result is
\* None when m < 45 and Some(m - 44) when m >= 45, within 1..65491.
C17_VersionIsMajorMinus44 ==
    \A i \in 1..Len(cls.calls) :
        \A j \in 1..Len(cls.calls[i].inspected) :
            LET insp == cls.calls[i].inspected[j]
                h    == cls.classpath[insp.entry].header
            IN  (Len(h) >= 8 /\ SubSeq(h, 1, 4) = CLASS_MAGIC) =>
                    LET m == h[7] * 256 + h[8]
                    IN  /\ m < 45 => ~insp.version.some
                        /\ m >= 45 => /\ insp.version.some
                                       /\ insp.version.v = m - 44
                                       /\ insp.version.v \in 1..65491

\* One call read a class file of major version 44 and then one of major
\* version 45.
C17_Witness ==
    \E i \in 1..Len(cls.calls) :
        /\ Len(cls.calls[i].inspected) = 2
        /\ cls.classpath[cls.calls[i].inspected[1].entry].header = ClassHeader(0, 44)
        /\ ~cls.calls[i].inspected[1].version.some
        /\ cls.classpath[cls.calls[i].inspected[2].entry].header = ClassHeader(0, 45)
        /\ cls.calls[i].inspected[2].version = SomeVersion(1)

C19_StopsAtFirstArtifact ==
    \A i \in 1..Len(cls.calls) :
        LET c == cls.calls[i]
        IN  /\ Len(c.inspected) <= 1
            /\ (Len(c.inspected) >= 1 /\ ~c.inspected[1].version.some)
                  => ~c.ret.some

SuccessfulCreates == {i \in Creates : events[i].ok}

\* C20: a process creates at most one runtime, so at most one runtime handle
\* is live at any time, and the one thread that runs create_and_run_jvm
\* finishes every strategy before it attempts a create.
C20_AtMostOneRuntime ==
    /\ Cardinality(SuccessfulCreates) <= 1
    /\ jvm # "none" => Cardinality(SuccessfulCreates) = 1
    /\ \A i \in Probes : \A j \in Creates : i < j

\* The macOS worker created a runtime after several strategies ran, and
\* create_and_run_jvm returned.
C20_Witness ==
    /\ proc.os = "macos"
    /\ pc = "done"
    /\ Cardinality(SuccessfulCreates) = 1
    /\ Cardinality(Probes) > 1
    /\ jvm = "destroyed"

\* The place of a native operation in the life of a runtime.
NativeRank(kind) ==
    CASE kind = "create"      -> 1
      [] kind = "attach"      -> 2
      [] kind = "invoke"      -> 3
      [] kind = "get_java_vm" -> 4
      [] kind = "destroy"     -> 5

NativeEvents == {i \in 1..Len(events) : events[i].kind \in NativeKinds}

\* C21: native operations are made in the order create, attach, invoke,
\* destroy; an attach follows a successful create, a call of main follows a
\* successful attach, and a run ends in AttachFailed or InvocationFailed only
\* when the create succeeded.
C21_NativeOrder ==
    /\ \A i, j \in NativeEvents :
          i < j => NativeRank(events[i].kind) <= NativeRank(events[j].kind)
    /\ \A i \in EventsOf("attach") :
          \E j \in Creates : j < i /\ events[j].ok
    /\ \A i \in EventsOf("invoke") :
          \E j \in EventsOf("attach") : j < i /\ events[j].ok
    /\ outcome \in {"AttachFailed", "InvocationFailed"} => CreateSucceeded

\* A run made all four operations and returned.
C21_Witness ==
    /\ pc = "done"
    /\ CreateSucceeded
    /\ \E i \in EventsOf("attach") : events[i].ok
    /\ \E i \in EventsOf("invoke") : events[i].ok
    /\ Destroys # {}

----------------------------------------------------------------------------
\* The configuration the two files give process_config, and what the
\* launcher hands on after each step.

WithSecondary == lc.overlay = "Present"

Built == lc.phase \in {"config", "options", "launched"}

RawOptionsOf == push_missing(lc.primary.keys.java_options,
                             IF WithSecondary
                             THEN lc.secondary.keys.java_options ELSE <<>>)

MemoryHint == lc.primary.keys.memory

LaunchArguments ==
    IF lc.phase = "config" THEN lc.config.java_opts ELSE lc.jvm_opts

IsWellFormed(option) == option # NulOption

\* C22: when an option of the launch arguments is malformed, that option is
\* dropped, a notice is emitted, and the runtime is created with the
\* remaining options.
C22_MalformedOptionDropped ==
    (lc.phase = "launched" /\ NulOption \in Range(lc.jvm_opts))
        => /\ lc.created
           /\ lc.args.ok
           /\ lc.args.options = SelectSeq(lc.jvm_opts, IsWellFormed)
           /\ lc.notices # <<>>

\* C23: no malformed input makes an operation panic: reading files with an
\* unterminated section header, without a main class, or with a main jar
\* whose manifest has no main section never ends in a panic.
C23_NoPanicOnMalformedInput == lc.phase # "panicked"

\* C24: a module option written with a space before its value reaches the
\* runtime with the value joined by `=`, with exactly one notice for each such
\* option; module options already written with `=` are passed unchanged with
\* no notice.
C24_SpacedModuleOptionRewritten ==
    (lc.phase = "launched" /\ lc.args.ok)
        => /\ SpacedModuleOption \notin Range(lc.args.options)
           /\ Len(lc.args.options) = Len(lc.jvm_opts)
           /\ \A i \in 1..Len(lc.jvm_opts) :
                lc.jvm_opts[i] \in {SpacedModuleOption, JoinedModuleOption}
                    => lc.args.options[i] = JoinedModuleOption
           /\ Len(lc.notices)
                = Cardinality({i \in 1..Len(lc.jvm_opts) :
                                   lc.jvm_opts[i] = SpacedModuleOption})

\* The options process_config makes itself, after the raw ones.
DerivedOptions ==
    {AppPathOption, "--add-opens", "java.base/java.lang=ALL-UNNAMED"}
        \cup {"-Djava.class.path=" \o join(cp, SEPARATOR) :
                cp \in {lc.config.classpath}}

HeapOptionOfHint ==
    IF MemoryHint = <<"0.5">> THEN "-Xmx4000000k" ELSE "-Xmx1600000k"

RECURSIVE joined_from_end(_)
joined_from_end(entries) ==
    IF Len(entries) = 1
    THEN entries[1]
    ELSE joined_from_end(SubSeq(entries, 1, Len(entries) - 1))
             \o SEPARATOR \o Last(entries)

ClasspathEntries == Values \cup {"lib.jar"}

\* Every option that sets the classpath, the one of no entry included.
ClasspathOptions ==
    {"-Djava.class.path="}
        \cup {"-Djava.class.path=" \o joined_from_end(cp) :
                cp \in SeqsUpTo(ClasspathEntries, MaxValues + 2) \ {<<>>}}

\* C26: the launch arguments begin with the raw options of the configuration,
\* as written and in their order, and hold a classpath option exactly when
\* the classpath has an entry: one option, whose value is the entries joined
\* in order with the separator.
C26_RawOptionsAndClasspath ==
    Built
        => /\ Len(LaunchArguments) >= Len(RawOptionsOf)
           /\ SubSeq(LaunchArguments, 1, Len(RawOptionsOf)) = RawOptionsOf
           /\ LET at == {i \in 1..Len(LaunchArguments) :
                            LaunchArguments[i] \in ClasspathOptions}
              IN  IF lc.config.classpath = <<>>
                  THEN at = {}
                  ELSE /\ Cardinality(at) = 1
                       /\ \A i \in at :
                            LaunchArguments[i] =
                                "-Djava.class.path="
                                    \o joined_from_end(lc.config.classpath)

C26_Witness ==
    /\ lc.phase = "launched"
    /\ lc.created
    /\ Len(RawOptionsOf) = 2
    /\ RawOptionsOf[1] # RawOptionsOf[2]
    /\ Len(lc.config.classpath) = 2
    /\ lc.config.classpath[1] # lc.config.classpath[2]

\* C27: when the primary and the secondary file both set the main class, the
\* runtime or the main jar, the launcher uses the value of the secondary.
C27_SecondaryTakesPrecedence ==
    (lc.phase = "config" /\ WithSecondary)
        => /\ (lc.primary.keys.mainclass # <<>> /\ lc.secondary.keys.mainclass # <<>>)
                 => lc.config.main_class = Last(lc.secondary.keys.mainclass)
           /\ (lc.primary.keys.runtime # <<>> /\ lc.secondary.keys.runtime # <<>>)
                 => lc.config.runtime = Last(lc.secondary.keys.runtime)
           /\ (lc.primary.keys.mainjar # <<>> /\ lc.secondary.keys.mainjar # <<>>)
                 => /\ lc.config.lookup_path = <<Last(lc.secondary.keys.mainjar)>>
                    /\ lc.config.main_class
                         = "main.of." \o Last(lc.secondary.keys.mainjar)

----------------------------------------------------------------------------
\* What the walk of find_file has met, in the order it met it.

Matches == {i \in 1..Len(fs.yielded) : Last(fs.yielded[i]) = Wanted}

LastMatch == fs.yielded[CHOOSE i \in Matches : \A j \in Matches : j <= i]

\* C28: find_file gives a root whose path ends with the file name back as it
\* is, without a walk and whether it exists or not; for any other root it
\* gives the last entry with the name of the file that the walk met, and
\* nothing when the walk met none.
C28_LastMatchOrRootItself ==
    fs.phase = "done"
        => IF fs.root.name = Wanted
           THEN fs.result = [some |-> TRUE, path |-> <<>>] /\ fs.yielded = <<>>
           ELSE IF Matches = {}
                THEN ~fs.result.some
                ELSE fs.result = [some |-> TRUE, path |-> LastMatch]

C28_Witness ==
    /\ fs.phase = "done"
    /\ fs.root.name # Wanted
    /\ Cardinality(Matches) >= 2
    /\ fs.result.some
    /\ fs.result.path # fs.yielded[CHOOSE i \in Matches : \A j \in Matches : i <= j]

\* C28 as stated: the last entry met with the name of the file is returned,
\* and nothing is returned when none was met or the root does not exist.
C28_LastMatchElseNothing ==
    fs.phase = "done"
        => /\ Matches # {} => fs.result = [some |-> TRUE, path |-> LastMatch]
           /\ (Matches = {} \/ ~fs.root.exists) => ~fs.result.some

\* C29: a path find_file returns is at most 5 levels below the root and has
\* no name beginning with "." at or below the root, and the walk never
\* enters a hidden directory, whatever the root is.
C29_BoundedAndNotHidden ==
    /\ \A i \in 1..Len(fs.yielded) :
         /\ Len(fs.yielded[i]) <= 5
         /\ \A k \in 1..Len(fs.yielded[i]) : fs.yielded[i][k] \notin HiddenNames
    /\ fs.result.some
         => /\ Len(fs.result.path) <= 5
            /\ fs.root.name \notin HiddenNames
            /\ \A k \in 1..Len(fs.result.path) :
                 fs.result.path[k] \notin HiddenNames

C29_Witness ==
    /\ fs.phase = "done"
    /\ fs.result.some
    /\ Len(fs.result.path) = 5
    /\ <<"d", ".h", Wanted>> \in fs.tree
    /\ <<"d", "d", "d", "d", "d", Wanted>> \in fs.tree

\* The nearest of the first 5 directories above the library that has an
\* entry named release, 0 when none of them has.
NearestRelease ==
    LET has == {i \in 1..Min(5, Len(fs.anc)) : fs.anc[i] # "none"}
    IN  IF has = {} THEN 0 ELSE CHOOSE i \in has : \A j \in has : i <= j

\* C30: compatible_java_version always returns, and when it has returned it
\* has used the release of the nearest of at most 5 directories above the
\* library that has one, and has answered None when none of them has one or
\* the path has fewer parents.
C30_NearestReleaseAndTerminates ==
    /\ [](fs.oracle.phase = "done"
            => /\ fs.oracle.used = NearestRelease
               /\ NearestRelease = 0 => fs.oracle.result = "None")
    /\ <>(fs.oracle.phase = "done")

\* C31: main is called with one parameter, the array of the forwarded
\* program arguments: those of the command line in their order, then the
\* `arguments` of the configuration in theirs; and that for any number of them.
C31_MainGetsOneStringArray ==
    lc.phase = "called"
        => /\ lc.call.made
           /\ lc.call.nargs = 1
           /\ lc.call.array
           /\ lc.call.strings = lc.cli \o lc.cfg.arguments

\* Where a value stands first in a list.
FirstAt(seq, v) == CHOOSE i \in 1..Len(seq) : seq[i] = v /\ \A j \in 1..(i - 1) : seq[j] # v

\* The list has the values of the primary first, as they were, and then, each
\* once and in the order the secondary first has them, the values of the
\* secondary that the primary has not.
MergedAsPrimaryThenNew(merged, primary, secondary) ==
    /\ Len(merged) >= Len(primary)
    /\ SubSeq(merged, 1, Len(primary)) = primary
    /\ LET new == SubSeq(merged, Len(primary) + 1, Len(merged))
       IN  /\ Range(new) = Range(secondary) \ Range(primary)
           /\ \A i, j \in 1..Len(new) :
                i < j => FirstAt(secondary, new[i]) < FirstAt(secondary, new[j])

\* C33: the configuration read_config gives process_config, when there is a
\* secondary file, has for every key the values of the primary first and
\* unchanged, then every value of the secondary that was not yet in the list,
\* in the order of the secondary and once.
C33_PrimaryFirstThenNewSecondary ==
    (lc.phase # "files" /\ WithSecondary
     /\ ~lc.primary.bad_header /\ ~lc.secondary.bad_header)
        => \A k \in DOMAIN lc.cfg :
             MergedAsPrimaryThenNew(lc.cfg[k], lc.primary.keys[k],
                                    lc.secondary.keys[k])

C33_Witness ==
    /\ lc.phase # "files"
    /\ WithSecondary
    /\ \E k \in DOMAIN lc.cfg :
         LET p == lc.primary.keys[k]
             q == lc.secondary.keys[k]
         IN  /\ Len(p) >= 1
             /\ Len(q) = 2
             /\ q[1] \in Range(p)
             /\ q[2] \notin Range(p)
             /\ lc.cfg[k] = Append(p, q[2])

----------------------------------------------------------------------------
\* The headers a section of the manifest holds.
HeadersOf(section) == {h[1] : h \in section}

\* C32: no section parse_manifest stores has a header named Name, wherever
\* the Name header stood in its section.
C32_NameNeverStored ==
    \A e \in mp.manifest : "Name" \notin HeadersOf(e[2])

\* C34: once the main section is stored with its Main-Class, no later line
\* and not the end of the file takes it out of the manifest or puts another
\* section in its place.
C34_MainSectionKept ==
    [][\A e \in mp.manifest :
         (e[1] = NoName /\ "Main-Class" \in HeadersOf(e[2]))
             => e \in mp.manifest']_vars

\* C37: when app.mainjar has several values, the jar whose manifest gives
\* the main class is the jar on the classpath and the lookup path.
C37_ManifestJarIsClasspathJar ==
    (lc.phase = "config" /\ Len(lc.cfg.mainjar) >= 2 /\ lc.cfg.mainclass = <<>>)
        => \E jar \in Values :
             /\ lc.config.main_class = "main.of." \o jar
             /\ lc.config.lookup_path = <<jar>>
             /\ jar \in Range(lc.config.classpath)

----------------------------------------------------------------------------
\* The strategies of java_launcher's get_jvm_paths that pushed a path.
AcceptedProbes == {i \in Probes : events[i].ok}

\* create_and_run_jvm is past `if let Some(paths) = get_jvm_paths(..)`.
PastPick == pc \in {"create", "attach", "invoke", "wait", "close"}

C36_EveryLocationHasAStrategy ==
    \A k \in 1..fh_JVM_LOC_QUERIES_LEN(fh.os) :
        \E runtime \in BOOLEAN :
            Strategy("location", k) \in Range(fh_jvm_paths(runtime, fh.os))

====
